---- MODULE Spec2Model ----
(***************************************************************************)
(* The review-submission pipeline of app-reviews: the /reviews/submit      *)
(* handler in its two deployments, web/index.ts (Prisma session store) and *)
(* api/index.ts (dev-store token from the environment), the product        *)
(* reference normalizer toProductGid, and the classification of the remote *)
(* GraphQL response into the directive handed to sendHtml.                 *)
(*                                                                         *)
(* Text the code inspects character by character (the product reference    *)
(* and the rating) is a sequence of one-character strings.  Text the code  *)
(* only compares or tests for emptiness (shop domains, tokens, messages,   *)
(* return targets) is a TLA+ string.                                       *)
(***************************************************************************)
EXTENDS Integers, Sequences, FiniteSets

\* ------------------------------------------------------------------ bounds

\* Longest generated product reference (characters after the optional prefix).
MaxLen == 3
\* Most rows of the session table.
MaxSessions == 2

\* ------------------------------------------------- JavaScript values (JSON)

JUndef == [t |-> "undefined"]
JNull == [t |-> "null"]
JStr(s) == [t |-> "str", s |-> s]
JArr(a) == [t |-> "arr", a |-> a]
JObj(f) == [t |-> "obj", f |-> f]

\* v?.k : undefined on null and undefined, the property otherwise.
Get(v, k) == IF v.t = "obj" /\ k \in DOMAIN v.f THEN v.f[k] ELSE JUndef

\* v ?? d
Coalesce(v, d) == IF v.t \in {"undefined", "null"} THEN d ELSE v

\* Whether v.length is truthy, for a non-nullish v.
LengthTruthy(v) ==
  CASE v.t = "arr" -> Len(v.a) > 0
    [] v.t = "str" -> v.s # ""
    [] v.t = "obj" -> Get(v, "length").t \notin {"undefined", "null"}
    [] OTHER -> FALSE

\* ------------------------------------------------------ characters, numbers

DigitChars == <<"0", "1", "2", "3", "4", "5", "6", "7", "8", "9">>

IsDigit(c) == \E i \in 1..10 : DigitChars[i] = c

DigitVal(c) == (CHOOSE i \in 1..10 : DigitChars[i] = c) - 1

RECURSIVE Pow10(_)
Pow10(e) == IF e = 0 THEN 1 ELSE 10 * Pow10(e - 1)

RECURSIVE DigitsVal(_)
DigitsVal(s) ==
  IF s = <<>> THEN 0
  ELSE 10 * DigitsVal(SubSeq(s, 1, Len(s) - 1)) + DigitVal(s[Len(s)])

RECURSIVE NatToChars(_)
NatToChars(n) ==
  IF n < 10 THEN <<DigitChars[n + 1]>>
  ELSE Append(NatToChars(n \div 10), DigitChars[(n % 10) + 1])

RECURSIVE PadLeft(_, _)
PadLeft(s, w) == IF Len(s) >= w THEN s ELSE PadLeft(<<"0">> \o s, w)

\* A JavaScript number: NaN, an infinity, or the decimal (-1)^neg * m / 10^e
\* with no trailing zero in the fraction.
NaN == [k |-> "nan"]
Inf(neg) == [k |-> "inf", neg |-> neg]

RECURSIVE Fin(_, _, _)
Fin(neg, m, e) ==
  IF e > 0 /\ m % 10 = 0 THEN Fin(neg, m \div 10, e - 1)
  ELSE [k |-> "fin", neg |-> neg, m |-> m, e |-> e]

RECURSIVE TrimLeft(_)
TrimLeft(s) == IF s # <<>> /\ s[1] = " " THEN TrimLeft(Tail(s)) ELSE s

RECURSIVE TrimRight(_)
TrimRight(s) ==
  IF s # <<>> /\ s[Len(s)] = " " THEN TrimRight(SubSeq(s, 1, Len(s) - 1)) ELSE s

InfinityChars == <<"I", "n", "f", "i", "n", "i", "t", "y">>

\* A StrDecimalLiteral without exponent: digits, at most one ".", at least one
\* digit.
IsDecimal(b) ==
  /\ \A i \in 1..Len(b) : IsDigit(b[i]) \/ b[i] = "."
  /\ Cardinality({i \in 1..Len(b) : b[i] = "."}) <= 1
  /\ \E i \in 1..Len(b) : IsDigit(b[i])

DecimalValue(neg, b) ==
  LET dots == {i \in 1..Len(b) : b[i] = "."}
      dot == IF dots = {} THEN Len(b) + 1 ELSE CHOOSE i \in dots : TRUE
      int == SubSeq(b, 1, dot - 1)
      frac == SubSeq(b, dot + 1, Len(b))
  IN Fin(neg, DigitsVal(int \o frac), Len(frac))

\* Number(s) for a string s (ECMAScript StringToNumber).  Exponent parts and
\* the 0x/0o/0b literals need letters the inputs below never combine with
\* digits, and are not modelled.
StringToNumber(s) ==
  LET t == TrimRight(TrimLeft(s))
      signed == t # <<>> /\ t[1] \in {"-", "+"}
      neg == t # <<>> /\ t[1] = "-"
      b == IF signed THEN Tail(t) ELSE t
  IN IF t = <<>> THEN Fin(FALSE, 0, 0)
     ELSE IF b = InfinityChars THEN Inf(neg)
     ELSE IF IsDecimal(b) THEN DecimalValue(neg, b)
     ELSE NaN

\* Number(v) for a request field: Number(undefined) is NaN.
ToNumber(v) == IF v.t = "undefined" THEN NaN ELSE StringToNumber(v.s)

\* String(v) for a request field.
StringOf(v) ==
  IF v.t = "undefined" THEN <<"u", "n", "d", "e", "f", "i", "n", "e", "d">>
  ELSE v.s

\* String(n) / `${n}` for a number, in the range where JavaScript prints plain
\* decimal notation (1e-7 <= |n| < 1e21).
NumberToString(n) ==
  CASE n.k = "nan" -> <<"N", "a", "N">>
    [] n.k = "inf" -> (IF n.neg THEN <<"-">> ELSE <<>>) \o InfinityChars
    [] OTHER ->
         LET p == Pow10(n.e)
             sign == IF n.neg /\ n.m > 0 THEN <<"-">> ELSE <<>>
             int == NatToChars(n.m \div p)
             frac == IF n.e = 0 THEN <<>>
                     ELSE <<".">> \o PadLeft(NatToChars(n.m % p), n.e)
         IN sign \o int \o frac

IsFinite(n) == n.k = "fin"

IsInteger(n) == n.k = "fin" /\ n.e = 0

\* n > c for an integer constant c >= 0.
Greater(n, c) ==
  CASE n.k = "nan" -> FALSE
    [] n.k = "inf" -> ~n.neg
    [] OTHER -> ~n.neg /\ n.m > c * Pow10(n.e)

\* n < c for an integer constant c >= 1.
Less(n, c) ==
  CASE n.k = "nan" -> FALSE
    [] n.k = "inf" -> n.neg
    [] OTHER -> n.neg \/ n.m < c * Pow10(n.e)

\* ------------------------------------------------------------ toProductGid

GidPrefix ==
  <<"g", "i", "d", ":", "/", "/", "s", "h", "o", "p", "i", "f", "y", "/",
    "P", "r", "o", "d", "u", "c", "t", "/">>

StartsWith(s, p) == Len(s) >= Len(p) /\ SubSeq(s, 1, Len(p)) = p

Null == <<>>

\* toProductGid with the test n >= 0 in place of n > 0.
toProductGidFromZero(id) ==
  LET s == StringOf(id)
      n == StringToNumber(s)
  IN IF StartsWith(s, GidPrefix) THEN s
     ELSE IF IsFinite(n) /\ ~Less(n, 0) THEN GidPrefix \o NumberToString(n)
     ELSE Null

\* The canonical reference, or Null (the empty text: no result is empty).
toProductGid(id) ==
  LET s == StringOf(id)
      n == StringToNumber(s)
  IN IF StartsWith(s, GidPrefix) THEN s
     ELSE IF IsFinite(n) /\ Greater(n, 0) THEN GidPrefix \o NumberToString(n)
     ELSE Null

\* -------------------------------------------------------------- the world

\* Tenants (shop domains) known to the model.
Shops == {"a.example", "b.example"}

\* Access tokens; the empty token is a stored session without one.
Tokens == {"", "shpat_1", "shpat_2"}

\* A row of the Prisma session table.
SessionRows == [shop : Shops, isOnline : BOOLEAN, accessToken : Tokens]

\* The session tables of at most n rows, in the order the rows were stored.
Stores(n) == UNION {[1..k -> SessionRows] : k \in 0..n}

\* DEV_SHOP_DOMAIN and DEV_ADMIN_TOKEN; "" is an unset (or empty) variable.
Envs == [devShop : {"", "a.example"}, devToken : {"", "shpat_dev"}]

NoEnv == [devShop |-> "", devToken |-> ""]

\* The characters generated product references are made of.
Alphabet == {"0", "5", ".", "-", "a"}

Texts(n) == UNION {[1..k -> Alphabet] : k \in 0..n}

GeneratedProducts ==
  {JStr(s) : s \in Texts(MaxLen)} \cup {JStr(GidPrefix \o s) : s \in Texts(MaxLen)}

ProductSamples ==
  { JUndef, JStr(<<"4", "2">>), JStr(<<"a", "b", "c">>), JStr(<<"0">>),
    JStr(<<"3", ".", "5", "0">>), JStr(GidPrefix \o <<"4", "2">>) }

RatingSamples ==
  { JUndef, JStr(<<"1">>), JStr(<<"5">>), JStr(<<"0">>), JStr(<<"6">>),
    JStr(<<"3", ".", "5">>), JStr(<<"a", "b", "c">>), JStr(<<"5", ".", "0">>) }

\* title, body, author, email of the form: absent, or filled in.
TextSamples ==
  { [title |-> JUndef, body |-> JUndef, author |-> JUndef, email |-> JUndef],
    [title |-> JStr("Great"), body |-> JStr("Works well"),
     author |-> JStr("Ann"), email |-> JStr("ann@example.org")] }

Request(qShop, hShop, bRet, qRet, product, rating, texts) ==
  [qShop |-> qShop, hShop |-> hShop, bReturnTo |-> bRet, qReturnTo |-> qRet,
   product |-> product, rating |-> rating, texts |-> texts]

\* Remote detail: what only the remote system or the transport knows.
ErrorTexts == {"ECONNREFUSED 10.0.0.7:443", "socket hang up"}

MetaobjectId == "gid://shopify/Metaobject/1"

Created(mo, errs) ==
  JObj([data |-> JObj([metaobjectCreate |->
         JObj([metaobject |-> mo, userErrors |-> errs])])])

UserError(field, message) ==
  JObj([field |-> JStr(field), message |-> JStr(message)])

Parsed(text, val) == [json |-> TRUE, text |-> text, val |-> val]

Unparseable(text) == [json |-> FALSE, text |-> text, val |-> JUndef]

\* The response bodies the remote system answers with.
Bodies ==
  << Parsed("created",
            Created(JObj([id |-> JStr(MetaobjectId)]), JArr(<<>>))),
     Parsed("user-error-rating",
            Created(JNull, JArr(<<UserError("rating", "bad")>>))),
     Parsed("user-error-email",
            Created(JNull, JArr(<<UserError("email", "Email is invalid")>>))),
     Parsed("empty-object", JObj(<<>>)),
     Parsed("null", JNull),
     Parsed("top-level-errors",
            JObj([errors |-> JStr("[API] Invalid API key or access token")])),
     Parsed("no-metaobject", Created(JNull, JArr(<<>>))),
     Parsed("null-user-errors",
            Created(JObj([id |-> JStr(MetaobjectId)]), JNull)),
     Unparseable("<html>502 Bad Gateway</html>"),
     Unparseable("upstream connect error") >>

\* ---------------------------------------------------------------- the state

VARIABLES
  handler,      \* "web" (web/index.ts) or "api" (api/index.ts)
  sessions,     \* the Prisma session table
  env,          \* the process environment
  req,          \* the request being handled
  pc,           \* where the handler is: start, lookup, fetch, text, done
  shop, returnTo, productGid, rating, accessToken,   \* the handler's locals
  lookups,      \* credential resolutions performed
  calls,        \* remote calls issued
  resp,         \* the body of the remote response, once read
  thrown,       \* the exception caught, and the await that raised it
  sent          \* the directives handed to sendHtml

vars ==
  <<handler, sessions, env, req, pc, shop, returnTo, productGid, rating,
    accessToken, lookups, calls, resp, thrown, sent>>

NotThrown == [at |-> "none", text |-> ""]

NoBody == [json |-> FALSE, text |-> "", val |-> JUndef]

Start(h, st, e, r) ==
  /\ handler = h /\ sessions = st /\ env = e /\ req = r
  /\ pc = "start"
  /\ shop = "" /\ returnTo = "" /\ productGid = Null /\ rating = NaN
  /\ accessToken = ""
  /\ lookups = 0 /\ calls = <<>> /\ resp = NoBody /\ thrown = NotThrown
  /\ sent = <<>>

\* Every combination of request fields, against a table of at most one row
\* (web) or any environment (api).
InitValidation ==
  \E h \in {"web", "api"}, qs \in {"", "a.example"}, hs \in {"", "b.example"},
     br \in {"", "/products/1"}, qr \in {"", "/cart"},
     p \in ProductSamples, rt \in RatingSamples :
    \E st \in (IF h = "web" THEN Stores(1) ELSE {<<>>}),
       e \in (IF h = "api" THEN Envs ELSE {NoEnv}) :
      Start(h, st, e,
            Request(qs, hs, br, qr, p, rt,
                    CHOOSE t \in TextSamples : t.title = JUndef))

\* Every session table, against well-formed requests of either tenant.
InitStores ==
  \E st \in Stores(MaxSessions), s \in Shops, t \in TextSamples :
    Start("web", st, NoEnv,
          Request(s, "", "", "", JStr(<<"4", "2">>), JStr(<<"5">>), t))

\* Every generated product reference, from an authorized tenant.
InitProducts ==
  \E h \in {"web", "api"}, p \in GeneratedProducts :
    Start(h,
          IF h = "web"
            THEN <<[shop |-> "a.example", isOnline |-> FALSE,
                    accessToken |-> "shpat_1"]>>
            ELSE <<>>,
          IF h = "api" THEN [devShop |-> "a.example", devToken |-> "shpat_dev"]
          ELSE NoEnv,
          Request("a.example", "", "", "", p, JStr(<<"5">>),
                  CHOOSE t \in TextSamples : t.title = JUndef))

Init == InitValidation \/ InitStores \/ InitProducts

\* ------------------------------------------------------------- the handler

\* (req.query.shop as string) || (req.headers["x-shopify-shop-domain"]) || ""
ShopOf(r) == IF r.qShop # "" THEN r.qShop ELSE r.hShop

\* (body.return_to as string) || (req.query.return_to as string) || "/"
ReturnToOf(r) ==
  IF r.bReturnTo # "" THEN r.bReturnTo
  ELSE IF r.qReturnTo # "" THEN r.qReturnTo
  ELSE "/"

\* String(body.title ?? "")
TextOf(v) == IF v.t = "undefined" THEN "" ELSE v.s

MinRating == 1
MaxRating == 5

\* Number.isInteger(rating) && rating >= 1 && rating <= 5
RatingOk(r) == IsInteger(r) /\ ~Less(r, MinRating) /\ ~Greater(r, MaxRating)

Failure(rt, message) ==
  [ok |-> FALSE, returnTo |-> rt, id |-> JUndef, message |-> JStr(message)]

Success(rt, id) ==
  [ok |-> TRUE, returnTo |-> rt, id |-> id, message |-> JUndef]

\* sendHtml(res, opts): the directive reaches the renderer.
sendHtml(opts) == sent' = Append(sent, opts)

\* return sendHtml(res, opts)
Return(opts) == sendHtml(opts) /\ pc' = "done"

\* A catch block that logs the exception and sends nothing.
CatchSwallow(at, text) ==
  /\ thrown' = [at |-> at, text |-> text]
  /\ pc' = "done"
  /\ UNCHANGED sent

\* The catch block around the handler's body.
Catch(at, text) ==
  /\ thrown' = [at |-> at, text |-> text]
  /\ Return(Failure(returnTo, "Server error"))

\* variables.fields of the mutation.
Fields(gid, r, texts) ==
  << [key |-> "product", value |-> gid],
     [key |-> "rating", value |-> NumberToString(r)],
     [key |-> "title", value |-> TextOf(texts.title)],
     [key |-> "body", value |-> TextOf(texts.body)],
     [key |-> "author", value |-> TextOf(texts.author)],
     [key |-> "email", value |-> TextOf(texts.email)],
     [key |-> "status", value |-> "approved"],
     [key |-> "created", value |-> "now"] >>

\* fetch(`https://${shop}/admin/api/...`, {headers: {"X-Shopify-Access-Token"}})
\* is issued; the handler awaits its response.
Fetch(s, token, gid, r) ==
  /\ calls' = Append(calls, [shop |-> s, token |-> token,
                             fields |-> Fields(gid, r, req.texts)])
  /\ pc' = "fetch"

\* findFirst({where: {shop}}): the isOnline filter left out.
FindFirstAnyClass(table, s) ==
  {table[i] : i \in {j \in 1..Len(table) : table[j].shop = s}}

\* The rows prisma.session.findFirst({where: {shop, isOnline: false}}) may
\* return: no orderBy is given, so any matching row.
FindFirst(table, s) ==
  {table[i] : i \in {j \in 1..Len(table) :
                       table[j].shop = s /\ table[j].isOnline = FALSE}}

\* session?.accessToken, over the rows findFirst may return; "" stands for
\* undefined as well (both are falsy, and neither is used).
SessionTokens(rows) ==
  IF rows = {} THEN {""} ELSE {row.accessToken : row \in rows}

\* A classification that forwards the first user error's message.
ClassifyLeaky(body, rt) ==
  IF ~body.json THEN Failure(rt, "API returned non-JSON")
  ELSE LET mc == Get(Get(body.val, "data"), "metaobjectCreate")
           errs == Coalesce(Get(mc, "userErrors"), JArr(<<>>))
       IN IF LengthTruthy(errs)
            THEN Failure(rt, Get(errs.a[1], "message").s)
          ELSE Success(rt, Get(Get(mc, "metaobject"), "id"))

\* The response body classified into the directive.
Classify(body, rt) ==
  IF ~body.json THEN Failure(rt, "API returned non-JSON")
  ELSE LET mc == Get(Get(body.val, "data"), "metaobjectCreate")
           errs == Coalesce(Get(mc, "userErrors"), JArr(<<>>))
       IN IF LengthTruthy(errs) THEN Failure(rt, "Validation error")
          ELSE Success(rt, Get(Get(mc, "metaobject"), "id"))

\* web/index.ts, from the request to the await of the session lookup.
WebSubmit ==
  /\ handler = "web" /\ pc = "start"
  /\ LET s == ShopOf(req)
         rt == ReturnToOf(req)
         gid == toProductGid(req.product)
         r == ToNumber(req.rating)
     IN /\ shop' = s /\ returnTo' = rt
        /\ IF s = ""
             THEN /\ Return(Failure(rt, "Missing shop"))
                  /\ UNCHANGED <<productGid, rating, lookups>>
             ELSE /\ productGid' = gid /\ rating' = r
                  /\ IF gid = Null
                       THEN /\ Return(Failure(rt, "Invalid product id"))
                            /\ UNCHANGED lookups
                     ELSE IF ~RatingOk(r)
                       THEN /\ Return(Failure(rt, "Rating must be 1..5"))
                            /\ UNCHANGED lookups
                     ELSE /\ lookups' = lookups + 1
                          /\ pc' = "lookup"
                          /\ UNCHANGED sent
  /\ UNCHANGED <<handler, sessions, env, req, accessToken, calls, resp, thrown>>

\* The session lookup returns; web/index.ts goes on to the await of fetch.
LookupReturns ==
  /\ pc = "lookup"
  /\ \E token \in SessionTokens(FindFirst(sessions, shop)) :
       /\ accessToken' = token
       /\ IF token = ""
            THEN /\ Return(Failure(returnTo, "App not authorized for this shop"))
                 /\ UNCHANGED calls
            ELSE /\ Fetch(shop, token, productGid, rating)
                 /\ UNCHANGED sent
  /\ UNCHANGED <<handler, sessions, env, req, shop, returnTo, productGid,
                 rating, lookups, resp, thrown>>

\* The session lookup rejects.
LookupThrows(text) ==
  /\ pc = "lookup"
  /\ Catch("lookup", text)
  /\ UNCHANGED <<handler, sessions, env, req, shop, returnTo, productGid,
                 rating, accessToken, lookups, calls, resp>>

\* api/index.ts, from the request to the await of fetch.  Its credential
\* resolution is the dev-store test on DEV_SHOP_DOMAIN and DEV_ADMIN_TOKEN,
\* which it makes right after the shop check.
ApiSubmit ==
  /\ handler = "api" /\ pc = "start"
  /\ LET s == ShopOf(req)
         rt == ReturnToOf(req)
         gid == toProductGid(req.product)
         r == ToNumber(req.rating)
     IN /\ shop' = s /\ returnTo' = rt
        /\ IF s = ""
             THEN /\ Return(Failure(rt, "Missing shop"))
                  /\ UNCHANGED <<productGid, rating, lookups, accessToken, calls>>
           ELSE IF env.devShop = "" \/ env.devToken = "" \/ s # env.devShop
             THEN /\ lookups' = lookups + 1
                  /\ accessToken' = env.devToken
                  /\ Return(Failure(rt, "App not authorized for this shop"))
                  /\ UNCHANGED <<productGid, rating, calls>>
           ELSE /\ lookups' = lookups + 1
                /\ accessToken' = env.devToken
                /\ productGid' = gid /\ rating' = r
                /\ IF gid = Null
                     THEN /\ Return(Failure(rt, "Invalid product id"))
                          /\ UNCHANGED calls
                   ELSE IF ~RatingOk(r)
                     THEN /\ Return(Failure(rt, "Rating must be 1..5"))
                          /\ UNCHANGED calls
                   ELSE /\ Fetch(s, env.devToken, gid, r)
                        /\ UNCHANGED sent
  /\ UNCHANGED <<handler, sessions, env, req, resp, thrown>>

\* fetch resolves with a response; the handler awaits resp.text().
FetchReturns ==
  /\ pc = "fetch"
  /\ pc' = "text"
  /\ UNCHANGED <<handler, sessions, env, req, shop, returnTo, productGid,
                 rating, accessToken, lookups, calls, resp, thrown, sent>>

\* A handler that issues the remote call again when fetch rejects.
FetchThrowsRetry(text) ==
  /\ pc = "fetch"
  /\ Len(calls) < 3
  /\ calls' = Append(calls, calls[Len(calls)])
  /\ UNCHANGED <<handler, sessions, env, req, pc, shop, returnTo, productGid,
                 rating, accessToken, lookups, resp, thrown, sent>>

\* fetch rejects (a network-level exception).
FetchThrows(text) ==
  /\ pc = "fetch"
  /\ Catch("fetch", text)
  /\ UNCHANGED <<handler, sessions, env, req, shop, returnTo, productGid,
                 rating, accessToken, lookups, calls, resp>>

\* resp.text() resolves with the body, which is parsed and classified.
TextReturns(body) ==
  /\ pc = "text"
  /\ resp' = body
  /\ Return(Classify(body, returnTo))
  /\ UNCHANGED <<handler, sessions, env, req, shop, returnTo, productGid,
                 rating, accessToken, lookups, calls, thrown>>

\* The try around JSON.parse widened over the await of resp.text().
TextThrowsAsNonJson(text) ==
  /\ pc = "text"
  /\ thrown' = [at |-> "text", text |-> text]
  /\ Return(Failure(returnTo, "API returned non-JSON"))
  /\ UNCHANGED <<handler, sessions, env, req, shop, returnTo, productGid,
                 rating, accessToken, lookups, calls, resp>>

\* resp.text() rejects (the connection breaks while the body is read).
TextThrows(text) ==
  /\ pc = "text"
  /\ Catch("text", text)
  /\ UNCHANGED <<handler, sessions, env, req, shop, returnTo, productGid,
                 rating, accessToken, lookups, calls, resp>>

Next ==
  \/ WebSubmit
  \/ LookupReturns
  \/ \E text \in ErrorTexts : LookupThrows(text)
  \/ ApiSubmit
  \/ FetchReturns
  \/ \E text \in ErrorTexts : FetchThrows(text)
  \/ \E i \in 1..Len(Bodies) : TextReturns(Bodies[i])
  \/ \E text \in ErrorTexts : TextThrows(text)

Spec == Init /\ [][Next]_vars

\* The requests and worlds of InitValidation that between them take every
\* path of the two handlers.
InitPaths ==
  \E h \in {"web", "api"}, qs \in {"", "a.example"},
     br \in {"", "/products/1"}, qr \in {"", "/cart"},
     p \in {JStr(<<"4", "2">>), JStr(<<"a", "b", "c">>)},
     rt \in {JStr(<<"5">>), JStr(<<"0">>)} :
    \E st \in (IF h = "web"
                 THEN {<<>>, <<[shop |-> "a.example", isOnline |-> FALSE,
                                accessToken |-> "shpat_1"]>>}
                 ELSE {<<>>}),
       e \in (IF h = "api"
                THEN {NoEnv, [devShop |-> "a.example", devToken |-> "shpat_dev"]}
                ELSE {NoEnv}) :
      Start(h, st, e,
            Request(qs, "", br, qr, p, rt,
                    CHOOSE t \in TextSamples : t.title = JUndef))

\* Every await of the handler settles: the lookup and the remote call each
\* return or throw.
FairSpec == InitPaths /\ [][Next]_vars /\ WF_vars(Next)

\* ------------------------------------------------- what the claims speak of

TenantEmpty == ShopOf(req) = ""

ProductInvalid == toProductGid(req.product) = Null

RatingInvalid == ~RatingOk(ToNumber(req.rating))

InputValid == ~TenantEmpty /\ ~ProductInvalid /\ ~RatingInvalid

\* The offline-class credentials stored for tenant s: the nonempty tokens of
\* its offline sessions (web), the dev-store token of the dev shop (api).
OfflineTokens(s) ==
  IF handler = "web"
    THEN {sessions[i].accessToken :
            i \in {j \in 1..Len(sessions) :
                     /\ sessions[j].shop = s
                     /\ ~sessions[j].isOnline
                     /\ sessions[j].accessToken # ""}}
  ELSE IF s # "" /\ env.devShop = s /\ env.devToken # "" THEN {env.devToken}
  ELSE {}

Unauthorized == "App not authorized for this shop"

ServerError == "Server error"

FailureLiterals ==
  { "Missing shop", "Invalid product id", "Rating must be 1..5", Unauthorized,
    "Validation error", "API returned non-JSON", ServerError }

Messages == {sent[i].message : i \in 1..Len(sent)}

\* C1: the reported failure is the first failing check in the order tenant,
\* product reference, rating, and only then the credential.
C1_FirstFailingCheck ==
  (pc = "done" /\ thrown.at = "none") =>
    /\ TenantEmpty => Messages = {JStr("Missing shop")}
    /\ (~TenantEmpty /\ ProductInvalid) => Messages = {JStr("Invalid product id")}
    /\ (~TenantEmpty /\ ~ProductInvalid /\ RatingInvalid)
         => Messages = {JStr("Rating must be 1..5")}
    /\ JStr(Unauthorized) \in Messages => InputValid
    /\ (InputValid /\ OfflineTokens(shop) = {}) => Messages = {JStr(Unauthorized)}

\* The order of C1 as web/index.ts alone keeps it.
WebFirstFailingCheck == handler = "web" => C1_FirstFailingCheck

\* C2: invalid input never performs a credential lookup and never issues a
\* remote call, and a remote call follows a successful lookup.
C2_NoLookupOnInvalidInput ==
  /\ ~InputValid => (lookups = 0 /\ calls = <<>>)
  /\ calls # <<>> => (lookups >= 1 /\ accessToken # "")

\* The part of C2 about the remote call alone.
NoCallOnInvalidInput ==
  /\ ~InputValid => calls = <<>>
  /\ calls # <<>> => (lookups >= 1 /\ accessToken # "")

\* C3 as stated: a tenant without an offline credential, the other fields
\* valid, ends with the Unauthorized directive, and no remote call is issued.
C3_AuthorizationGate ==
  (InputValid /\ OfflineTokens(ShopOf(req)) = {}) =>
    /\ calls = <<>>
    /\ pc = "done" => sent = <<Failure(ReturnToOf(req), Unauthorized)>>

\* C3 as amended: the same, for a lookup that returns; a lookup that throws
\* issues no remote call either.
C3_GateWhenLookupReturns ==
  (InputValid /\ OfflineTokens(ShopOf(req)) = {}) =>
    /\ calls = <<>>
    /\ (pc = "done" /\ thrown.at # "lookup")
         => sent = <<Failure(ReturnToOf(req), Unauthorized)>>

\* A tenant whose only sessions are online ones, or hold no token, was turned
\* away.
C3_Witness ==
  /\ pc = "done" /\ handler = "web" /\ InputValid
  /\ OfflineTokens(shop) = {}
  /\ \E i \in 1..Len(sessions) : sessions[i].shop = shop
  /\ sent = <<Failure(ReturnToOf(req), Unauthorized)>>
  /\ calls = <<>>

\* C4: a directive with ok = true carries the created entity's identifier.
C4_SuccessCarriesId ==
  \A i \in 1..Len(sent) :
    sent[i].ok => (sent[i].id.t = "str" /\ sent[i].id.s # "")

\* C5: at most one remote call and one credential lookup per submission; a
\* transport exception, a non-JSON body or user errors end the request with
\* its failure directive.
RemoteFailed ==
  \/ thrown.at \in {"fetch", "text"}
  \/ resp # NoBody /\ ~resp.json
  \/ resp # NoBody /\ resp.json
       /\ LengthTruthy(Coalesce(
            Get(Get(Get(resp.val, "data"), "metaobjectCreate"), "userErrors"),
            JArr(<<>>)))

C5_NoRetry ==
  /\ Len(calls) <= 1
  /\ lookups <= 1
  /\ RemoteFailed =>
       (pc = "done" /\ Len(sent) = 1 /\ ~sent[1].ok /\ Len(calls) = 1)

C5_Witness ==
  /\ pc = "done" /\ thrown.at = "fetch" /\ Len(calls) = 1 /\ lookups = 1
  /\ Len(sent) = 1

\* What only the remote system or the transport said: the raw body, the
\* exception text, the field and message of every user error.
RemoteDetail ==
  LET errs == Get(Get(Get(resp.val, "data"), "metaobjectCreate"), "userErrors")
      top == Get(resp.val, "errors")
  IN {thrown.text, resp.text}
       \cup (IF errs.t = "arr"
               THEN UNION {{errs.a[i].f.field.s, errs.a[i].f.message.s} :
                             i \in 1..Len(errs.a)}
               ELSE {})
       \cup (IF top.t = "str" THEN {top.s} ELSE {})

\* C6: the message of a failure directive is one of the seven literals, fixed
\* by the kind of failure and by nothing the remote system said.
C6_MessageByKind ==
  \A i \in 1..Len(sent) :
    LET d == sent[i]
    IN ~d.ok =>
         /\ d.message.t = "str"
         /\ d.message.s \in FailureLiterals
         /\ d.message.s \notin RemoteDetail \ {""}
         /\ thrown.at # "none" => d.message.s = ServerError
         /\ (thrown.at = "none" /\ resp # NoBody /\ ~resp.json)
              => d.message.s = "API returned non-JSON"
         /\ (thrown.at = "none" /\ resp # NoBody /\ resp.json)
              => d.message.s = "Validation error"
         /\ (thrown.at = "none" /\ resp = NoBody)
              => d.message.s \in {"Missing shop", "Invalid product id",
                                  "Rating must be 1..5", Unauthorized}

C6_Witness ==
  /\ pc = "done" /\ Len(sent) = 1
  /\ "Email is invalid" \in RemoteDetail
  /\ sent[1].message = JStr("Validation error")

\* C7 as stated: an exception of the remote call yields the transport
\* failure, and the transport failure is reported only after a remote call
\* was issued.
C7_TransportOnlyFromRemote ==
  /\ thrown.at \in {"fetch", "text"}
       => (pc = "done" /\ sent = <<Failure(returnTo, ServerError)>>)
  /\ JStr(ServerError) \in Messages => calls # <<>>

\* C7 as amended: the literal is reported exactly when an await of the
\* handler threw, the credential lookup included.
C7_ServerErrorIffThrown ==
  /\ thrown.at \in {"fetch", "text"}
       => (pc = "done" /\ sent = <<Failure(returnTo, ServerError)>>
             /\ calls # <<>>)
  /\ thrown.at = "lookup"
       => (pc = "done" /\ sent = <<Failure(returnTo, ServerError)>>
             /\ calls = <<>>)
  /\ JStr(ServerError) \in Messages => thrown.at \in {"lookup", "fetch", "text"}

C7_Witness ==
  /\ pc = "done" /\ thrown.at = "fetch"
  /\ sent = <<Failure(returnTo, ServerError)>>

\* The most recently stored offline session of tenant s.
MostRecentOffline(s) ==
  LET hits == {j \in 1..Len(sessions) :
                 sessions[j].shop = s /\ ~sessions[j].isOnline}
  IN sessions[CHOOSE j \in hits : \A k \in hits : k <= j]

\* C8: the token of a remote call is an offline credential of the tenant the
\* call goes to, the most recently stored one.
C8_MostRecentOfflineToken ==
  \A i \in 1..Len(calls) :
    /\ calls[i].token \in OfflineTokens(calls[i].shop)
    /\ handler = "web"
         => calls[i].token = MostRecentOffline(calls[i].shop).accessToken

\* The part of C8 the code keeps: the tenant's own offline credential.
TokenOfSameTenant ==
  \A i \in 1..Len(calls) :
    calls[i].shop = shop /\ calls[i].token \in OfflineTokens(calls[i].shop)

\* The handler has evaluated toProductGid(body.product_id ?? body.productId).
GidComputed ==
  /\ pc # "start" /\ shop # ""
  /\ handler = "api" => (env.devShop = shop /\ env.devToken # "")

Suffix(gid) == SubSeq(gid, Len(GidPrefix) + 1, Len(gid))

\* The text of a positive integer.
IsPositiveIntegerText(t) ==
  /\ t # <<>>
  /\ \A i \in 1..Len(t) : IsDigit(t[i])
  /\ DigitsVal(t) > 0

ProductFieldIs(gid) ==
  \A i \in 1..Len(calls) :
    calls[i].fields[1] = [key |-> "product", value |-> gid]

\* C9 as stated: every result, and the product of every mutation, is
\* gid://shopify/Product/<positive integer>.
C9_CanonicalPositiveInteger ==
  /\ (GidComputed /\ productGid # Null) =>
       (StartsWith(productGid, GidPrefix)
          /\ IsPositiveIntegerText(Suffix(productGid)))
  /\ calls # <<>> => (productGid # Null /\ ProductFieldIs(productGid))

\* C9 as amended: a reference that starts with the prefix is returned as it
\* is; any other is the prefix followed by the decimal text of the finite
\* number above zero it parses to, an integer or not; any other input gives
\* null and no mutation.
C9_PrefixedReference ==
  LET s == StringOf(req.product)
      n == StringToNumber(s)
      canonical == StartsWith(s, GidPrefix)
      positive == n.k = "fin" /\ ~n.neg /\ n.m > 0
  IN /\ GidComputed =>
          /\ canonical => productGid = s
          /\ (~canonical /\ positive) =>
               /\ StartsWith(productGid, GidPrefix)
               /\ IsDecimal(Suffix(productGid))
               /\ Suffix(productGid)[1] # "."
               /\ StringToNumber(Suffix(productGid)) = n
          /\ (~canonical /\ ~positive) => productGid = Null
     /\ calls # <<>> => (productGid # Null /\ ProductFieldIs(productGid))

\* The reference ".5" reached the mutation as gid://shopify/Product/0.5.
C9_Witness ==
  /\ req.product = JStr(<<".", "5">>)
  /\ calls # <<>>
  /\ calls[1].fields[1].value = GidPrefix \o <<"0", ".", "5">>

\* C10: every submission ends with exactly one directive, carrying the
\* request's return target, and nothing follows it.
C10_ExactlyOneDirective ==
  /\ [](/\ Len(sent) <= 1
        /\ Len(sent) = 1 => (pc = "done" /\ sent[1].returnTo = ReturnToOf(req))
        /\ pc = "done" => Len(sent) = 1)
  /\ <>(pc = "done" /\ Len(sent) = 1)
  /\ [][sent # <<>> => UNCHANGED <<lookups, calls, sent>>]_vars

\* The lookup threw, and the one directive went to the query's return target.
C10_Witness ==
  /\ pc = "done" /\ thrown.at = "lookup"
  /\ Len(sent) = 1
  /\ req.bReturnTo = "" /\ sent[1].returnTo = "/cart"

====
